---- MODULE Spec2Model ----
(***************************************************************************)
(* PRISMA Procurement API (PRISM-HACKREV/Procurement).                     *)
(*                                                                         *)
(* The response cache (src/core/cache.py), the catalog loader and ranking  *)
(* helpers (src/core/utils.py), the three request handlers                 *)
(* (src/routes/suppliers.py), the second route-eta handler                 *)
(* (src/routes/routing.py) and the supplier data loader                    *)
(* (src/core/data_loader.py) as a state machine.                           *)
(*                                                                         *)
(* Time.  datetime.utcnow() is the variable now, counted in ticks of       *)
(* 1/TicksPerSecond seconds.  A handler reads the clock several times      *)
(* within microseconds; the model gives every read of one handler the same *)
(* instant.                                                                *)
(*                                                                         *)
(* Atomicity.  The handlers are coroutines on one event loop.  Their only  *)
(* suspension point is the asyncio.sleep of simulate_latency at the very   *)
(* start: the asyncio.Lock of the cache is never held across an await, so  *)
(* acquiring it never suspends.  Everything after the sleep therefore runs *)
(* without interleaving and is one action here.                            *)
(***************************************************************************)
EXTENDS Integers, Sequences, FiniteSets, TLC

VARIABLES
    now,                \* datetime.utcnow(), in ticks
    advances,           \* number of clock advances so far (bounds the run)
    cache,              \* CacheManager._cache : key -> entry
    supplierDataCache,  \* utils._supplier_data_cache : material keys loaded
    fileState,          \* data/<file>.json on disk: "ok", "missing", "malformed"
    nextReq,            \* source of generate_request_id()
    resp,               \* the call that completed last, with its outcome
    written,            \* history: key -> payload as passed to the last set
    stamped,            \* history: key -> [at, expiry] of the last set
    served,             \* history: search request -> its miss-computed answer
    due,                \* history: the answer the last search had to repeat
    loader,             \* SupplierDataLoader: its _cache, a reload under way
    inflight,           \* the handler coroutines started and not yet answered
    lock                \* CacheManager._lock: "free" or "held"

vars == <<now, advances, cache, supplierDataCache, fileState, nextReq, resp,
          written, stamped, served, due, loader, inflight, lock>>

(* the variables of the catalog loader and of the coroutines in flight:    *)
(* the actions that serve one request at a time leave them alone           *)
others == <<loader, inflight, lock>>

----------------------------------------------------------------------------
(* Bounds of the model *)

MaxAdvances == 2
MaxRequests == 2
MaxCacheOps == 3
MaxTtlHours == 1
TicksPerSecond == 2

(* Program constants *)

SECONDS_PER_HOUR == 3600
DEFAULT_TTL_HOURS == 24
CACHE_TTL_HOURS == 24
USE_MOCK == TRUE

HourTicks == SECONDS_PER_HOUR * TicksPerSecond

----------------------------------------------------------------------------
(* Optional values: Python None against a present value *)

Nothing == [given |-> FALSE, value |-> 0]
Some(x) == [given |-> TRUE, value |-> x]

(* bool(x) of an Optional[int]/Optional[float]: None and 0 are both falsy *)
Truthy(opt) == opt.given /\ opt.value # 0

----------------------------------------------------------------------------
(* CacheManager, src/core/cache.py *)

(* _generate_key: json.dumps(kwargs, sort_keys=True) hashed with SHA-256   *)
(* and cut to 16 hex digits.  The key is the canonical form of the kwargs  *)
(* (a record, so the order of the keywords is immaterial); the digest is   *)
(* taken to be injective on it.                                            *)
GenerateKey(kwargs) == kwargs

(* timedelta(hours=ttl_hours) if ttl_hours else self._default_ttl *)
TtlOf(ttl_hours) ==
    IF Truthy(ttl_hours) THEN ttl_hours.value * HourTicks
    ELSE DEFAULT_TTL_HOURS * HourTicks

(* int((utcnow() - cached_at).total_seconds()) *)
AgeSeconds(t, cached_at) == (t - cached_at) \div TicksPerSecond

Miss == [cache_hit |-> FALSE]

(* variant: no entry ever counts as expired *)
ExpiredNever(entry, t) == FALSE

(* variant: expired from the expiry instant on (>= for >) *)
ExpiredAtDeadline(entry, t) == t >= entry.expiry

(* get: "if expiry and datetime.utcnow() > expiry" *)
Expired(entry, t) == t > entry.expiry

(* get, the value returned *)
CacheGetResult(c, kwargs, t) ==
    LET k == GenerateKey(kwargs) IN
    IF k \notin DOMAIN c THEN Miss
    ELSE IF Expired(c[k], t) THEN Miss
    ELSE [data        |-> c[k].data,
          cached_at   |-> c[k].cached_at,
          age_seconds |-> AgeSeconds(t, c[k].cached_at),
          cache_hit   |-> TRUE]

(* "del self._cache[cache_key]" *)
Remove(c, k) == [x \in DOMAIN c \ {k} |-> c[x]]

(* variant: a get that reports the miss and leaves the expired entry *)
CacheAfterGetKeeping(c, kwargs, t) == c

(* get, the store it leaves behind: an expired entry is deleted *)
CacheAfterGet(c, kwargs, t) ==
    LET k == GenerateKey(kwargs) IN
    IF k \in DOMAIN c /\ Expired(c[k], t) THEN Remove(c, k) ELSE c

(* get_stats *)
GetStats(c, t) ==
    LET expired_count == Cardinality({k \in DOMAIN c : t > c[k].expiry}) IN
    [total_entries   |-> Cardinality(DOMAIN c),
     active_entries  |-> Cardinality(DOMAIN c) - expired_count,
     expired_entries |-> expired_count,
     ttl_hours       |-> DEFAULT_TTL_HOURS]

(* variant: the ttl subtracted from the clock *)
NewEntryExpiryBeforeNow(data, ttl_hours, t) ==
    [data |-> data, cached_at |-> t, expiry |-> t - TtlOf(ttl_hours)]

(* set, the entry written *)
NewEntry(data, ttl_hours, t) ==
    [data |-> data, cached_at |-> t, expiry |-> t + TtlOf(ttl_hours)]

(* set, the store it leaves behind *)
CacheAfterSet(c, data, ttl_hours, kwargs, t) ==
    LET k == GenerateKey(kwargs) IN
    [x \in DOMAIN c \cup {k} |->
        IF x = k THEN NewEntry(data, ttl_hours, t) ELSE c[x]]

(* delete *)
CacheAfterDelete(c, kwargs) ==
    LET k == GenerateKey(kwargs) IN
    IF k \in DOMAIN c THEN Remove(c, k) ELSE c

(* clear *)
CacheAfterClear(c) == [x \in {} |-> x]

EmptyCache == [x \in {} |-> x]

----------------------------------------------------------------------------
(* The clock *)

\* half a second, and the default time to live
Advances == {1, DEFAULT_TTL_HOURS * HourTicks}

Tick(d) ==
    /\ UNCHANGED others
    /\ advances < MaxAdvances
    /\ now' = now + d
    /\ advances' = advances + 1
    /\ UNCHANGED <<cache, supplierDataCache, fileState, nextReq, resp,
                   written, stamped, served, due>>

----------------------------------------------------------------------------
(* Coroutines of search_suppliers between their start and their answer *)

MaxInflight == 2

Coroutines == 1..MaxInflight

NoInflight ==
    [c \in Coroutines |-> [pc |-> "idle", op |-> "none", req |-> [none |-> TRUE],
                           resp |-> [none |-> TRUE]]]

(* variant: a cache method that returns without releasing the lock *)
NeverReleased(l) == "held"

(* "async with self._lock": the lock after the block, however it was left *)
Released(l) == "free"

----------------------------------------------------------------------------
(* SupplierDataLoader, src/core/data_loader.py.                            *)
(*                                                                         *)
(* reload() is a plain method without a lock: a reader can only run        *)
(* concurrently with it from another thread, and then the interpreter may  *)
(* switch threads between any two statements of reload (the file reads     *)
(* release the interpreter lock).  The model takes one step per statement: *)
(* the clear, then one step per material file.                             *)
(* The catalog on disk is a revision number; a material's list is one      *)
(* record naming the material and the revision it was read at.             *)

MaxCatalogVersions == 2

base == <<now, advances, cache, supplierDataCache, fileState, nextReq, resp,
          written, stamped, served, due>>

(* material_files of _load_all_data, in the order of the dict *)
LOADER_FILES == <<"cement", "sand", "gravel", "bricks">>

LoaderMaterials == {LOADER_FILES[i] : i \in 1..Len(LOADER_FILES)}

(* lines 28-33: the list stored for a material when the files on disk are  *)
(* at the given revision; the bricks file does not exist                   *)
LoadedList(material_id, revision) ==
    IF material_id = "bricks" THEN <<>>
    ELSE <<[supplier_id |-> material_id, revision |-> revision]>>

(* _load_all_data run to its end *)
LoadAllData(revision) ==
    [m \in LoaderMaterials |-> LoadedList(m, revision)]

NotSeen == [op |-> "none"]

(* SupplierDataLoader(): __init__ loads everything before anyone reads *)
LoaderInit ==
    [cache |-> LoadAllData(1), pending |-> <<>>, disk |-> 1, seen |-> NotSeen]

(* the files under data/ are replaced by a new revision of the catalog *)
CatalogChange ==
    /\ loader.pending = <<>>
    /\ loader.disk < MaxCatalogVersions
    /\ loader' = [loader EXCEPT !.disk = @ + 1]
    /\ UNCHANGED <<base, inflight, lock>>

(* reload, line 69: self._cache.clear() *)
ReloadClear ==
    /\ loader.pending = <<>>
    /\ loader' = [loader EXCEPT !.cache = EmptyCache, !.pending = LOADER_FILES]
    /\ UNCHANGED <<base, inflight, lock>>

(* reload, line 70: one turn of the loop of _load_all_data *)
ReloadLoadNext ==
    /\ loader.pending # <<>>
    /\ LET material_id == Head(loader.pending) IN
       loader' = [loader EXCEPT
                    !.cache = [m \in DOMAIN loader.cache \cup {material_id} |->
                                 IF m = material_id
                                 THEN LoadedList(material_id, loader.disk)
                                 ELSE loader.cache[m]],
                    !.pending = Tail(@)]
    /\ UNCHANGED <<base, inflight, lock>>

(* get_suppliers_by_material: self._cache.get(material_id, []).copy() *)
GetSuppliersByMaterial(material_id) ==
    /\ loader' = [loader EXCEPT !.seen =
                    [op |-> "get_suppliers_by_material",
                     material_id |-> material_id,
                     result |-> IF material_id \in DOMAIN loader.cache
                                THEN loader.cache[material_id] ELSE <<>>]]
    /\ UNCHANGED <<base, inflight, lock>>

(* get_all_materials: list(self._cache.keys()), as read by the health route *)
GetAllMaterials ==
    /\ loader' = [loader EXCEPT !.seen =
                    [op |-> "get_all_materials",
                     material_id |-> "",
                     result |-> SelectSeq(LOADER_FILES,
                                          LAMBDA m : m \in DOMAIN loader.cache)]]
    /\ UNCHANGED <<base, inflight, lock>>

----------------------------------------------------------------------------
(* Direct use of the cache: set / get / delete / clear with arbitrary      *)
(* keyword arguments, payloads and ttl_hours.                              *)

CacheKwargs == {[endpoint |-> "probe", id |-> i] : i \in 1..2}
Payloads == {"v1", "v2"}
TtlInputs == {Nothing} \cup {Some(h) : h \in 0..MaxTtlHours}

NoResp == [op |-> "none", seq |-> 0]

OpsLeft == resp.seq < MaxCacheOps

CSet(kw, v, ttl) ==
    /\ UNCHANGED others
    /\ OpsLeft
    /\ cache' = CacheAfterSet(cache, v, ttl, kw, now)
    /\ resp' = [op |-> "set", seq |-> resp.seq + 1, kwargs |-> kw,
                data |-> v, ttl_hours |-> ttl, at |-> now]
    /\ written' = [x \in DOMAIN written \cup {GenerateKey(kw)} |->
                     IF x = GenerateKey(kw) THEN v ELSE written[x]]
    /\ stamped' = [x \in DOMAIN stamped \cup {GenerateKey(kw)} |->
                     IF x = GenerateKey(kw)
                     THEN [at |-> now, expiry |-> cache'[x].expiry]
                     ELSE stamped[x]]
    /\ UNCHANGED <<now, advances, supplierDataCache, fileState, nextReq,
                   served, due>>

CGet(kw) ==
    /\ UNCHANGED others
    /\ OpsLeft
    /\ cache' = CacheAfterGet(cache, kw, now)
    /\ resp' = [op |-> "get", seq |-> resp.seq + 1, kwargs |-> kw,
                result |-> CacheGetResult(cache, kw, now), at |-> now,
                after |-> resp]
    /\ UNCHANGED <<now, advances, supplierDataCache, fileState, nextReq,
                   written, stamped, served, due>>

CDelete(kw) ==
    /\ UNCHANGED others
    /\ OpsLeft
    /\ cache' = CacheAfterDelete(cache, kw)
    /\ resp' = [op |-> "delete", seq |-> resp.seq + 1, kwargs |-> kw,
                at |-> now]
    /\ UNCHANGED <<now, advances, supplierDataCache, fileState, nextReq,
                   written, stamped, served, due>>

CClear ==
    /\ UNCHANGED others
    /\ OpsLeft
    /\ cache' = CacheAfterClear(cache)
    /\ resp' = [op |-> "clear", seq |-> resp.seq + 1, at |-> now]
    /\ UNCHANGED <<now, advances, supplierDataCache, fileState, nextReq,
                   written, stamped, served, due>>

AllFilesOk == [f \in {"cement_suppliers_mock.json", "sand_suppliers_mock.json",
                     "aggregate_suppliers_mock.json",
                     "bricks_suppliers_mock.json"} |-> "ok"]

InitCache ==
    /\ now = 0
    /\ advances = 0
    /\ cache = EmptyCache
    /\ supplierDataCache = {}
    /\ fileState = AllFilesOk
    /\ nextReq = 1
    /\ resp = NoResp
    /\ written = EmptyCache
    /\ stamped = EmptyCache
    /\ served = EmptyCache
    /\ due = Nothing
    /\ loader = LoaderInit
    /\ inflight = NoInflight
    /\ lock = "free"

NextCache ==
    \/ \E kw \in CacheKwargs, v \in Payloads, ttl \in TtlInputs : CSet(kw, v, ttl)
    \/ \E kw \in CacheKwargs : CGet(kw)
    \/ \E kw \in CacheKwargs : CDelete(kw)
    \/ CClear
    \/ \E d \in Advances : Tick(d)

SpecCache == InitCache /\ [][NextCache]_vars

----------------------------------------------------------------------------
(* Catalog data, src/core/utils.py.  The JSON files under data/ are an     *)
(* input of the program; FileContents is a small well-formed catalog.      *)
(* Coordinates are integers in units of 0.00001 degree, distances in units *)
(* of 0.01 km, stock and quantities in units of 0.001 ton, prices and      *)
(* amounts of money in units of 0.01 INR.                                  *)

MATERIAL_FILE_MAP ==
    [m \in {"cement_opc_53", "cement", "sand_river", "sand",
            "aggregate_20mm", "aggregate", "gravel", "bricks_red", "bricks"} |->
        CASE m \in {"cement_opc_53", "cement"} -> "cement_suppliers_mock.json"
          [] m \in {"sand_river", "sand"} -> "sand_suppliers_mock.json"
          [] m \in {"aggregate_20mm", "aggregate", "gravel"} ->
                 "aggregate_suppliers_mock.json"
          [] OTHER -> "bricks_suppliers_mock.json"]

(* material_id.lower() on the material strings the requests use *)
Lower(m) ==
    CASE m = "Cement" -> "cement"
      [] OTHER -> m

(* n tons, n INR *)
Tons(n) == n * 1000
Inr(n) == n * 100

SupplierRec(id, stock, price, lead, lat, lon) ==
    [supplier_id |-> id, stock_tons |-> Tons(stock),
     price_inr_per_ton |-> Inr(price),
     lead_time_days |-> lead, latitude |-> lat, longitude |-> lon]

FileContents ==
    [f \in DOMAIN AllFilesOk |->
        CASE f = "cement_suppliers_mock.json" ->
               <<SupplierRec("SUP-CEM-001", 500, 6800, 2, 1733450, 7845120),
                 SupplierRec("SUP-CEM-002", 40, 6500, 3, 1738500, 7848670)>>
          [] f = "sand_suppliers_mock.json" ->
               <<SupplierRec("SUP-SND-001", 20, 1200, 1, 1744000, 7834890),
                 SupplierRec("SUP-SND-002", 30, 1100, 2, 1724030, 7842940)>>
          [] f = "aggregate_suppliers_mock.json" ->
               <<SupplierRec("SUP-AGG-001", 0, 900, 1, 1733450, 7845120),
                 SupplierRec("SUP-AGG-002", 0, 950, 1, 1738500, 7848670),
                 SupplierRec("SUP-AGG-003", 0, 920, 2, 1724030, 7842940),
                 SupplierRec("SUP-AGG-004", 30, 980, 2, 1744000, 7834890)>>
          [] OTHER -> <<>>]

(* load_supplier_data: the value returned or the exception raised *)
LoadSupplierData(material_id, sdc, fs) ==
    LET material_key == Lower(material_id) IN
    IF material_key \in sdc
    THEN [raised |-> "none",
          suppliers |-> FileContents[MATERIAL_FILE_MAP[material_key]]]
    ELSE IF material_key \notin DOMAIN MATERIAL_FILE_MAP
    THEN [raised |-> "ValueError", suppliers |-> <<>>]
    ELSE LET filename == MATERIAL_FILE_MAP[material_key] IN
         CASE fs[filename] = "missing" ->
                [raised |-> "FileNotFoundError", suppliers |-> <<>>]
           [] fs[filename] = "malformed" ->
                [raised |-> "ValueError", suppliers |-> <<>>]
           [] OTHER ->
                [raised |-> "none", suppliers |-> FileContents[filename]]

(* load_supplier_data: _supplier_data_cache afterwards *)
SupplierDataCacheAfterLoad(material_id, sdc, fs) ==
    IF LoadSupplierData(material_id, sdc, fs).raised = "none"
    THEN sdc \cup {Lower(material_id)}
    ELSE sdc

(* haversine_distance, tabulated with the source's formula for the         *)
(* coordinates the model uses (result in 0.01 km)                          *)
HaversineDistance(lat1, lon1, lat2, lon2) ==
    LET from == CASE lon1 = -1 -> 1          \* on the prime meridian
                  [] lon1 = 1 -> 2
                  [] lon1 = 12 -> 3
                  [] lon1 < 7840000 -> 4     \* west of the suppliers
                  [] OTHER -> 5
    IN
    CASE lat2 = 1733450 /\ lon2 = 7845120 ->
           <<825777, 825777, 825776, 1598, 28>>[from]
      [] lat2 = 1738500 /\ lon2 = 7848670 ->
           <<826011, 826010, 826009, 1585, 655>>[from]
      [] lat2 = 1744000 /\ lon2 = 7834890 ->
           <<824446, 824445, 824444, 0, 1611>>[from]
      [] lat2 = 1724030 /\ lon2 = 7842940 ->
           <<825800, 825800, 825799, 2379, 1086>>[from]

(* round(x, 4) of a coordinate *)
Round4(x) == ((x + 5) \div 10) * 10

(* round(x, 4) as the float it is: round keeps the sign of x, so a         *)
(* negative x that rounds to zero gives -0.0, which equals 0.0 and which   *)
(* json.dumps writes as "-0.0"                                             *)
Round4Float(x) == [value |-> Round4(x), negative |-> x < 0]

(* round(n / d) to the nearest integer, halves away from zero (a half-way  *)
(* case of the source's round() depends on the binary representation of    *)
(* the float; the quantities of the model stay clear of them)              *)
RoundDiv(n, d) ==
    IF n >= 0 THEN (2 * n + d) \div (2 * d)
    ELSE -((2 * (-n) + d) \div (2 * d))

----------------------------------------------------------------------------
(* Ranking helpers, src/core/utils.py *)

Infinity == 1000000000

(* s.get(c, default) *)
Get(s, c, default) == IF c \in DOMAIN s THEN s[c] ELSE default

(* variant: a missing criterion read as 0 *)
RankKeyMissingAsZero(s) == <<Get(s, "distance_km", 0),
                            Get(s, "price_inr_per_ton", 0),
                            Get(s, "lead_time_days", 0)>>

(* the sort key: tuple(s.get(c, float('inf')) for c in criteria) *)
RankKey(s) == <<Get(s, "distance_km", Infinity),
                Get(s, "price_inr_per_ton", Infinity),
                Get(s, "lead_time_days", Infinity)>>

(* variant: the tuples compared by their first component only *)
TupleLessByDistance(a, b) == a[1] < b[1]

(* tuple comparison a < b *)
TupleLess(a, b) ==
    \/ a[1] < b[1]
    \/ a[1] = b[1] /\ a[2] < b[2]
    \/ a[1] = b[1] /\ a[2] = b[2] /\ a[3] < b[3]

RECURSIVE InsertByKey(_, _)
(* x placed behind every element whose key is not greater (stable) *)
InsertByKey(x, sorted) ==
    IF sorted = <<>> THEN <<x>>
    ELSE IF TupleLess(RankKey(x), RankKey(Head(sorted)))
         THEN <<x>> \o sorted
         ELSE <<Head(sorted)>> \o InsertByKey(x, Tail(sorted))

RECURSIVE RankSuppliers(_)
(* rank_suppliers: sorted(suppliers, key=...) *)
RankSuppliers(suppliers) ==
    IF suppliers = <<>> THEN <<>>
    ELSE InsertByKey(suppliers[Len(suppliers)],
                     RankSuppliers(SubSeq(suppliers, 1, Len(suppliers) - 1)))

(* variant: only the suppliers with more stock than required *)
FilterWithSpareStock(suppliers, required_quantity) ==
    SelectSeq(suppliers,
              LAMBDA s : Get(s, "stock_tons", 0) > required_quantity)

(* filter_eligible_suppliers *)
FilterEligibleSuppliers(suppliers, required_quantity) ==
    SelectSeq(suppliers,
              LAMBDA s : Get(s, "stock_tons", 0) >= required_quantity)

Min(a, b) == IF a <= b THEN a ELSE b

(* round(x, 2) of a quantity in 0.001 ton *)
Round2(x) == RoundDiv(x, 10) * 10

(* round(quantity * amount, 2) for a quantity >= 0 in 0.001 ton and an     *)
(* amount per ton in 0.01 INR: the whole tons contribute whole units       *)
PerTon(quantity, amount) ==
    (quantity \div 1000) * amount + RoundDiv((quantity % 1000) * amount, 1000)

RECURSIVE SplitLoop(_, _, _)
(* create_split_plan: the loop over suppliers[:3] *)
SplitLoop(suppliers, remaining, plan) ==
    IF suppliers = <<>> THEN plan
    ELSE LET supplier == Head(suppliers)
             available == Get(supplier, "stock_tons", 0)
             allocation == Min(available, remaining)
         IN  IF available <= 0
             THEN SplitLoop(Tail(suppliers), remaining, plan)
             ELSE LET plan2 ==
                        IF allocation > 0
                        THEN Append(plan,
                               [x \in DOMAIN supplier \cup
                                      {"allocated_tons", "estimated_cost_inr"} |->
                                  CASE x = "allocated_tons" -> Round2(allocation)
                                    [] x = "estimated_cost_inr" ->
                                         PerTon(allocation,
                                                Get(supplier,
                                                    "price_inr_per_ton", 0))
                                    [] OTHER -> supplier[x]])
                        ELSE plan
                      remaining2 ==
                        IF allocation > 0 THEN remaining - allocation
                        ELSE remaining
                  IN  IF remaining2 <= 0 THEN plan2
                      ELSE SplitLoop(Tail(suppliers), remaining2, plan2)

(* create_split_plan *)
CreateSplitPlan(suppliers, required_quantity) ==
    IF suppliers = <<>> THEN <<>>
    ELSE SplitLoop(SubSeq(suppliers, 1, Min(3, Len(suppliers))),
                   required_quantity, <<>>)

----------------------------------------------------------------------------
(* Response records, src/domain/schemas.py *)

SupplierFields == {"supplier_id", "stock_tons", "price_inr_per_ton",
                   "lead_time_days", "latitude", "longitude", "distance_km"}

(* Supplier built from the keys of a dict d: the declared fields are kept, *)
(* any other key is ignored                                                *)
(* (name, material_id, material_name, address and rating are carried       *)
(* through untouched by every handler and are left out of the records)     *)
Supplier(d) == [f \in SupplierFields \cap DOMAIN d |-> d[f]]

NoSupplier == [none |-> TRUE]
NoBody == [none |-> TRUE]

Provenance(rid, t) ==
    [cache |-> FALSE, cache_age_seconds |-> Nothing, request_id |-> rid,
     generated_at |-> t]

----------------------------------------------------------------------------
(* search_suppliers, src/routes/suppliers.py *)

(* variant: the key built from the coordinates as they came in *)
SearchKwargsUnrounded(req) ==
    [endpoint |-> "suppliers_search",
     material |-> req.material,
     lat |-> [value |-> req.origin.latitude, negative |-> req.origin.latitude < 0],
     lon |-> [value |-> req.origin.longitude,
              negative |-> req.origin.longitude < 0],
     qty |-> req.quantity_tons]

SearchKwargs(req) ==
    [endpoint |-> "suppliers_search",
     material |-> req.material,
     lat |-> Round4Float(req.origin.latitude),
     lon |-> Round4Float(req.origin.longitude),
     qty |-> req.quantity_tons]

(* the list comprehension that adds distance_km *)
Enrich(suppliers_list, origin) ==
    [i \in 1..Len(suppliers_list) |->
        [x \in DOMAIN suppliers_list[i] \cup {"distance_km"} |->
            IF x = "distance_km"
            THEN HaversineDistance(origin.latitude, origin.longitude,
                                   suppliers_list[i].latitude,
                                   suppliers_list[i].longitude)
            ELSE suppliers_list[i][x]]]

(* variant: the best-ranked supplier recommended whatever its stock *)
RecommendBestRanked(ranked, quantity_tons) ==
    [eligible_suppliers |-> FilterEligibleSuppliers(ranked, quantity_tons),
     split_plan |-> <<>>,
     recommended |-> IF ranked # <<>> THEN Supplier(ranked[1]) ELSE NoSupplier]

(* lines 97-113: eligible_suppliers, split_plan and recommended as the     *)
(* handler leaves them                                                     *)
RecommendationPolicy(ranked, quantity_tons) ==
    LET eligible == FilterEligibleSuppliers(ranked, quantity_tons)
        plan == CreateSplitPlan(ranked, quantity_tons)
    IN  IF eligible # <<>>
        THEN [eligible_suppliers |-> eligible, split_plan |-> <<>>,
              recommended |-> Supplier(eligible[1])]
        ELSE IF ranked # <<>>
        THEN [eligible_suppliers |-> eligible, split_plan |-> plan,
              recommended |-> IF plan # <<>> THEN Supplier(plan[1])
                              ELSE NoSupplier]
        ELSE [eligible_suppliers |-> eligible, split_plan |-> <<>>,
              recommended |-> NoSupplier]

(* lines 104-113: the recommended supplier *)
Recommend(ranked, quantity_tons) ==
    RecommendationPolicy(ranked, quantity_tons).recommended

(* lines 80-137: the bundle of a fresh computation; the list is enriched   *)
(* and ranked once (lines 86-98) and the bundle is built from that value   *)
BuildBundle(req, suppliers_list, rid, t) ==
    CHOOSE bundle \in
        {[origin |-> req.origin,
          material |-> req.material,
          quantity_tons |-> req.quantity_tons,
          suppliers |-> [i \in 1..Len(ranked) |-> Supplier(ranked[i])],
          recommended |-> Recommend(ranked, req.quantity_tons),
          provenance |-> Provenance(rid, t)] :
            ranked \in {RankSuppliers(enriched) :
                           enriched \in {Enrich(suppliers_list, req.origin)}}} :
        TRUE

(* variant: a hit that returns the provenance id found in the entry *)
MarkCacheHitKeepingId(data, age_seconds, rid) ==
    [data EXCEPT !.provenance.cache = TRUE,
                 !.provenance.cache_age_seconds = Some(age_seconds)]

(* lines 72-75: the cached dict with its provenance rewritten in place *)
MarkCacheHit(data, age_seconds, rid) ==
    [data EXCEPT !.provenance.cache = TRUE,
                 !.provenance.cache_age_seconds = Some(age_seconds),
                 !.provenance.request_id = rid]

(* what the store holds after a hit: cached["data"] is the very dict of    *)
(* the entry, so lines 73-75 write into the stored entry                   *)
CacheAfterHit(c, kwargs, hitData) ==
    [c EXCEPT ![GenerateKey(kwargs)].data = hitData]

(* Field(..., gt=0) on quantity_tons: FastAPI answers 422 before the       *)
(* handler runs                                                            *)
Rejected(op, req) ==
    [op |-> op, req |-> req, status |-> 422, detail |-> "validation",
     fault |-> "none", body |-> NoBody]

RequestsLeft == nextReq <= MaxRequests

(* history of the payloads: only the keys still in the store *)
Kept(w, c) == [x \in DOMAIN w \cap DOMAIN c |-> w[x]]

(* the requests a search answers from history, for the properties below *)
DueFor(req) ==
    IF req \in DOMAIN served
       /\ now <= served[req].at + CACHE_TTL_HOURS * HourTicks
    THEN Some(served[req])
    ELSE Nothing

SearchInvalid(req) ==
    /\ UNCHANGED others
    /\ ~(req.quantity_tons > 0)
    /\ resp' = Rejected("search", req)
    /\ due' = Nothing
    /\ UNCHANGED <<now, advances, cache, supplierDataCache, fileState,
                   nextReq, written, stamped, served>>

(* fault: "get" / "set" make that call of the cache raise, "none" is the   *)
(* program as it runs                                                      *)
SearchBody(req, fault) ==
    LET request_id == nextReq
        kwargs == SearchKwargs(req)
        k == GenerateKey(kwargs)
        cached == CacheGetResult(cache, kwargs, now)
        cache1 == CacheAfterGet(cache, kwargs, now)
        loaded == LoadSupplierData(req.material, supplierDataCache, fileState)
        response == BuildBundle(req, loaded.suppliers, request_id, now)
        Answer(status, detail, flt, body) ==
            [op |-> "search", req |-> req, status |-> status,
             detail |-> detail, fault |-> flt, body |-> body]
    IN
    /\ req.quantity_tons > 0
    /\ RequestsLeft
    /\ nextReq' = nextReq + 1
    /\ due' = DueFor(req)
    /\ UNCHANGED <<now, advances, fileState, stamped>>
    /\ IF fault = "get"
       THEN \* line 70 is outside the try block: the exception leaves the handler
            /\ resp' = Answer(500, "unhandled", "get", NoBody)
            /\ UNCHANGED <<cache, supplierDataCache, written, served>>
       ELSE IF cached.cache_hit /\ USE_MOCK
       THEN LET data == MarkCacheHit(cached.data, cached.age_seconds, request_id)
            IN  /\ cache' = CacheAfterHit(cache1, kwargs, data)
                /\ resp' = Answer(200, "ok", "none", data)
                /\ UNCHANGED <<supplierDataCache, written, served>>
       ELSE /\ supplierDataCache' =
                   SupplierDataCacheAfterLoad(req.material, supplierDataCache,
                                              fileState)
            /\ CASE loaded.raised = "FileNotFoundError" ->
                      /\ resp' = Answer(404, "FileNotFoundError", "none", NoBody)
                      /\ cache' = cache1
                      /\ written' = Kept(written, cache1)
                      /\ UNCHANGED served
                 [] loaded.raised = "ValueError" ->
                      /\ resp' = Answer(400, "ValueError", "none", NoBody)
                      /\ cache' = cache1
                      /\ written' = Kept(written, cache1)
                      /\ UNCHANGED served
                 [] loaded.raised = "none" /\ fault = "set" ->
                      \* line 140 raises inside the try block: except Exception
                      /\ resp' = Answer(500, "Internal error", "set", NoBody)
                      /\ cache' = cache1
                      /\ written' = Kept(written, cache1)
                      /\ UNCHANGED served
                 [] OTHER ->
                      /\ cache' = CacheAfterSet(cache1, response,
                                                Some(CACHE_TTL_HOURS), kwargs, now)
                      /\ resp' = Answer(200, "ok", "none", response)
                      /\ written' = [x \in DOMAIN written \cup {k} |->
                                       IF x = k THEN response ELSE written[x]]
                      /\ served' =
                           IF due'.given THEN served
                           ELSE [x \in DOMAIN served \cup {req} |->
                                   IF x = req
                                   THEN [at |-> now, request_id |-> request_id,
                                         suppliers |-> response.suppliers,
                                         recommended |-> response.recommended]
                                   ELSE served[x]]

SearchWith(req, fault) == SearchBody(req, fault) /\ UNCHANGED others

Search(req) == SearchWith(req, "none")

(* lines 56-57: the request passed validation and the coroutine is         *)
(* suspended in "await simulate_latency()"                                 *)
SearchStart(c, req) ==
    /\ inflight[c].pc = "idle"
    /\ req.quantity_tons > 0
    /\ inflight' = [inflight EXCEPT ![c] = [pc |-> "sleeping", op |-> "search",
                                            req |-> req, resp |-> NoBody]]
    /\ UNCHANGED <<base, loader, lock>>

(* lines 59-153: the sleep is over and the coroutine runs to its answer.   *)
(* cache_manager.get and set take the lock: they go ahead when it is free  *)
(* and leave it as their "async with" block leaves it                      *)
SearchResume(c) ==
    /\ inflight[c].pc = "sleeping"
    /\ inflight[c].op = "search"
    /\ lock = "free"
    /\ SearchBody(inflight[c].req, "none")
    /\ inflight' = [inflight EXCEPT ![c].pc = "answered", ![c].resp = resp']
    /\ lock' = Released(lock)
    /\ UNCHANGED loader

----------------------------------------------------------------------------
(* get_supplier_quote, src/routes/suppliers.py *)

PRICE_JITTER_MIN == 990
PRICE_JITTER_MAX == 1020
QUOTE_VALID_HOURS == 48
AVG_SPEED_KM_PER_DAY == 300
AVG_SPEED_KMH == 40
DEFAULT_ROUTE_TONS == 10

(* random.uniform(min_factor, max_factor), in thousandths: the two ends    *)
(* and the neutral factor                                                  *)
JitterFactors == {PRICE_JITTER_MIN, 1000, PRICE_JITTER_MAX}

(* random.choice([-2, -1, 0, 1, 2]) *)
EtaJitters == {-2, -1, 0, 1, 2}

(* variant: the product cut off after the second decimal *)
ApplyPriceJitterTruncating(base_price, jitter) == (base_price * jitter) \div 1000

(* apply_price_jitter: round(base_price * jitter, 2), the factor in        *)
(* thousandths                                                             *)
ApplyPriceJitter(base_price, jitter) == RoundDiv(base_price * jitter, 1000)

(* estimate_delivery_eta: base + ceil(max(0.5, distance_km / 300)) *)
EstimateDeliveryEta(distance_km, base_lead_time_days) ==
    LET perDay == AVG_SPEED_KM_PER_DAY * 100
        whole == (distance_km + perDay - 1) \div perDay
    IN  base_lead_time_days + (IF whole < 1 THEN 1 ELSE whole)

Max(a, b) == IF a >= b THEN a ELSE b

RECURSIVE FindInFiles(_, _)
(* the first record with the id in any of the files *)
FindInFiles(files, supplier_id) ==
    IF files = {} THEN NoSupplier
    ELSE LET f == CHOOSE x \in files : TRUE
             ids == {i \in 1..Len(FileContents[f]) :
                        FileContents[f][i].supplier_id = supplier_id}
         IN  IF ids # {} THEN FileContents[f][CHOOSE i \in ids : TRUE]
             ELSE FindInFiles(files \ {f}, supplier_id)

(* variant: the lookup of data_loader.get_supplier_by_id, over every material *)
FindSupplierInAnyMaterial(suppliers_list, supplier_id) ==
    FindInFiles(DOMAIN FileContents, supplier_id)

RECURSIVE FindSupplier(_, _)
(* lines 174-178: the first record of the list with the requested id *)
FindSupplier(suppliers_list, supplier_id) ==
    IF suppliers_list = <<>> THEN NoSupplier
    ELSE IF Head(suppliers_list).supplier_id = supplier_id
         THEN Head(suppliers_list)
         ELSE FindSupplier(Tail(suppliers_list), supplier_id)

QuoteInvalid(req) ==
    /\ UNCHANGED others
    /\ ~(req.quantity_tons > 0)
    /\ resp' = Rejected("quote", req)
    /\ due' = Nothing
    /\ UNCHANGED <<now, advances, cache, supplierDataCache, fileState,
                   nextReq, written, stamped, served>>

(* lines 168-250: the response of the handler *)
QuoteOutcome(req, jitter, etaJitter, request_id, sdc, fs, t) ==
    LET loaded == LoadSupplierData(req.material, sdc, fs)
        supplier_info == FindSupplier(loaded.suppliers, req.supplier_id)
        distance == HaversineDistance(req.origin.latitude, req.origin.longitude,
                                      supplier_info.latitude,
                                      supplier_info.longitude)
        quoted_price == ApplyPriceJitter(supplier_info.price_inr_per_ton, jitter)
        eta_days == EstimateDeliveryEta(distance, supplier_info.lead_time_days)
        quote ==
            [quote_id |-> request_id,
             supplier |-> Supplier([x \in DOMAIN supplier_info \cup {"distance_km"} |->
                                      IF x = "distance_km" THEN distance
                                      ELSE supplier_info[x]]),
             material |-> req.material,
             quantity_tons |-> req.quantity_tons,
             unit_price_inr |-> quoted_price,
             total_price_inr |-> PerTon(req.quantity_tons, quoted_price),
             valid_until |-> t + QUOTE_VALID_HOURS * HourTicks,
             eta_days |-> Max(1, eta_days + etaJitter),
             provenance |-> Provenance(request_id, t)]
        Answer(status, detail, body) ==
            [op |-> "quote", req |-> req, status |-> status,
             detail |-> detail, fault |-> "none", body |-> body]
    IN  CASE loaded.raised = "FileNotFoundError" ->
               Answer(404, "FileNotFoundError", NoBody)
          [] loaded.raised = "ValueError" ->
               \* no "except ValueError" here: it ends in "except Exception"
               Answer(500, "Internal error", NoBody)
          [] supplier_info = NoSupplier ->
               Answer(404, "Supplier not found", NoBody)
          [] OTHER -> Answer(200, "ok", quote)

(* lines 166-250: the handler after its sleep *)
QuoteBody(req, jitter, etaJitter) ==
    /\ req.quantity_tons > 0
    /\ RequestsLeft
    /\ nextReq' = nextReq + 1
    /\ due' = Nothing
    /\ supplierDataCache' =
           SupplierDataCacheAfterLoad(req.material, supplierDataCache, fileState)
    /\ resp' = QuoteOutcome(req, jitter, etaJitter, nextReq,
                            supplierDataCache, fileState, now)
    /\ UNCHANGED <<now, advances, cache, fileState, written, stamped, served>>

(* variant: a quote handler that stores its answer in the response cache *)
QuoteStoringResult(req, jitter, etaJitter) ==
    /\ UNCHANGED others
    /\ req.quantity_tons > 0
    /\ RequestsLeft
    /\ nextReq' = nextReq + 1
    /\ due' = Nothing
    /\ supplierDataCache' =
           SupplierDataCacheAfterLoad(req.material, supplierDataCache, fileState)
    /\ resp' = QuoteOutcome(req, jitter, etaJitter, nextReq,
                            supplierDataCache, fileState, now)
    /\ cache' = CacheAfterSet(cache, resp'.body, Some(CACHE_TTL_HOURS),
                              [endpoint |-> "quote", id |-> req.supplier_id], now)
    /\ UNCHANGED <<now, advances, fileState, written, stamped, served>>

Quote(req, jitter, etaJitter) ==
    QuoteBody(req, jitter, etaJitter) /\ UNCHANGED others

(* lines 162-164: a validated quote request reaches its handler, which     *)
(* goes to sleep in "await simulate_latency(100, 200)"                     *)
QuoteStart(c, req) ==
    /\ inflight[c].pc = "idle"
    /\ req.quantity_tons > 0
    /\ inflight' = [inflight EXCEPT ![c] = [pc |-> "sleeping", op |-> "quote",
                                            req |-> req, resp |-> NoBody]]
    /\ UNCHANGED <<base, loader, lock>>

(* lines 166-250: the sleep is over; the handler never touches the cache   *)
(* (the two ends of the jitter range and an unchanged ETA stand for the    *)
(* draws: the handler returns whatever they are)                           *)
QuoteResume(c) ==
    /\ inflight[c].pc = "sleeping"
    /\ inflight[c].op = "quote"
    /\ \E jitter \in {PRICE_JITTER_MIN, PRICE_JITTER_MAX}, etaJitter \in {0} :
           QuoteBody(inflight[c].req, jitter, etaJitter)
    /\ inflight' = [inflight EXCEPT ![c].pc = "answered", ![c].resp = resp']
    /\ UNCHANGED <<loader, lock>>

----------------------------------------------------------------------------
(* calculate_route_eta, src/routes/suppliers.py *)

(* calculate_co2_emissions: round(quantity * distance * 0.06, 2), in 0.01 kg *)
CalculateCo2Emissions(quantity_tons, distance_km) ==
    RoundDiv(quantity_tons * distance_km * 6, 100000)

(* "if request.quantity_tons: ... else: assume 10 tons" *)
RouteCo2(quantity_tons, distance) ==
    IF Truthy(quantity_tons)
    THEN CalculateCo2Emissions(quantity_tons.value, distance)
    ELSE CalculateCo2Emissions(Tons(DEFAULT_ROUTE_TONS), distance)

(* variant: the thresholds themselves still in the better class *)
RouteQualityInclusive(distance) ==
    IF distance <= 10 * 100 THEN "optimal"
    ELSE IF distance <= 30 * 100 THEN "good"
    ELSE "fair"

(* lines 304-309, distance in 0.01 km *)
RouteQuality(distance) ==
    IF distance < 10 * 100 THEN "optimal"
    ELSE IF distance < 30 * 100 THEN "good"
    ELSE "fair"

(* RouteRequest declares quantity_tons: Optional[float] without a bound *)
RouteRequestValid(req) == TRUE

(* lines 264-346: the handler after its sleep *)
RouteEtaBody(req) ==
    LET request_id == nextReq
        dest == req.destination
        distance == HaversineDistance(req.origin.latitude, req.origin.longitude,
                                      dest.latitude.value, dest.longitude.value)
        duration_minutes == (distance * 60) \div (AVG_SPEED_KMH * 100)
        co2_kg == RouteCo2(req.quantity_tons, distance)
        route_eta ==
            [route_id |-> request_id,
             origin |-> req.origin,
             destination |-> dest,
             distance_km |-> distance,
             duration_minutes |-> duration_minutes,
             eta |-> now + duration_minutes * 60 * TicksPerSecond,
             co2_kg |-> co2_kg,
             route_quality |-> RouteQuality(distance),
             provenance |-> Provenance(request_id, now)]
        Answer(status, detail, body) ==
            [op |-> "route_eta", req |-> req, status |-> status,
             detail |-> detail, fault |-> "none", body |-> body]
    IN
    /\ RouteRequestValid(req)
    /\ RequestsLeft
    /\ nextReq' = nextReq + 1
    /\ due' = Nothing
    /\ resp' =
         IF ~dest.latitude.given \/ ~dest.longitude.given
         THEN Answer(400, "Destination must include coordinates", NoBody)
         ELSE IF co2_kg < 0
         THEN \* RouteETA declares co2_kg with ge=0: ValidationError, line 345
              Answer(500, "Internal error", NoBody)
         ELSE Answer(200, "ok", route_eta)
    /\ UNCHANGED <<now, advances, cache, supplierDataCache, fileState,
                   written, stamped, served>>

RouteEta(req) == RouteEtaBody(req) /\ UNCHANGED others

(* lines 260-262: a route request reaches its handler, which goes to       *)
(* sleep in "await simulate_latency(120, 220)"                             *)
RouteStart(c, req) ==
    /\ inflight[c].pc = "idle"
    /\ inflight' = [inflight EXCEPT ![c] = [pc |-> "sleeping", op |-> "route",
                                            req |-> req, resp |-> NoBody]]
    /\ UNCHANGED <<base, loader, lock>>

(* lines 264-346: the sleep is over; the handler never touches the cache   *)
RouteResume(c) ==
    /\ inflight[c].pc = "sleeping"
    /\ inflight[c].op = "route"
    /\ RouteEtaBody(inflight[c].req)
    /\ inflight' = [inflight EXCEPT ![c].pc = "answered", ![c].resp = resp']
    /\ UNCHANGED <<loader, lock>>

----------------------------------------------------------------------------
(* calculate_route_eta, src/routes/routing.py: the second implementation   *)
(* of the route-eta operation, on RouteETARequest.  Its helpers            *)
(* should_simulate_rate_limit, calculate_eta_days, generate_route_id and   *)
(* get_provenance are imported from a utils that does not define them;     *)
(* they are taken as the handler's docstring and call sites describe them: *)
(* a random decision, max(0.5, distance / 300) days, a fresh id and the    *)
(* provenance of a fresh answer.                                           *)

ROUTING_DEFAULT_TONS == 1

(* line 61: "request.quantity_tons if request.quantity_tons else 1.0" *)
RoutingCo2(quantity_tons, distance) ==
    IF Truthy(quantity_tons)
    THEN CalculateCo2Emissions(quantity_tons.value, distance)
    ELSE CalculateCo2Emissions(Tons(ROUTING_DEFAULT_TONS), distance)

(* timedelta(days=eta_days) in ticks, eta_days = max(0.5, distance / 300) *)
RoutingEtaTicks(distance) ==
    Max(12 * HourTicks,
        RoundDiv(distance * 24 * HourTicks, AVG_SPEED_KM_PER_DAY * 100))

(* RouteETARequest declares quantity_tons with gt=0: 422 before the handler *)
RoutingRequestValid(req) ==
    req.quantity_tons.given => req.quantity_tons.value > 0

RoutingRouteInvalid(req) ==
    /\ ~RoutingRequestValid(req)
    /\ resp' = Rejected("routing_route_eta", req)
    /\ due' = Nothing
    /\ UNCHANGED <<now, advances, cache, supplierDataCache, fileState,
                   nextReq, written, stamped, served, loader, inflight, lock>>

(* limited: what should_simulate_rate_limit() returned                     *)
(* lines 64-69 are the statements of RouteQuality                          *)
RoutingRouteEta(req, limited) ==
    LET request_id == nextReq
        dest == req.destination
        distance == HaversineDistance(req.origin.latitude, req.origin.longitude,
                                      dest.latitude.value, dest.longitude.value)
        duration_minutes == (distance * 60) \div (AVG_SPEED_KMH * 100)
        route ==
            [route_id |-> request_id,
             origin |-> req.origin,
             destination |-> dest,
             distance_km |-> distance,
             duration_minutes |-> duration_minutes,
             eta |-> now + RoutingEtaTicks(distance),
             co2_kg |-> RoutingCo2(req.quantity_tons, distance),
             route_quality |-> RouteQuality(distance),
             provenance |-> Provenance(request_id, now)]
        Answer(status, detail, body) ==
            [op |-> "routing_route_eta", req |-> req, status |-> status,
             detail |-> detail, fault |-> "none", body |-> body]
    IN
    /\ RoutingRequestValid(req)
    /\ RequestsLeft
    /\ due' = Nothing
    /\ IF limited
       THEN /\ resp' = Answer(429, "Rate limit exceeded", NoBody)
            /\ UNCHANGED nextReq
       ELSE /\ nextReq' = nextReq + 1
            /\ resp' =
                 IF ~dest.latitude.given \/ ~dest.longitude.given
                 THEN Answer(400, "Destination must include coordinates", NoBody)
                 ELSE Answer(200, "ok", route)
    /\ UNCHANGED <<now, advances, cache, supplierDataCache, fileState,
                   written, stamped, served, loader, inflight, lock>>

----------------------------------------------------------------------------
(* Explicit invalidation of a search entry: CacheManager.delete / clear *)

Delete(req) ==
    LET kwargs == SearchKwargs(req) IN
    /\ UNCHANGED others
    /\ cache' = CacheAfterDelete(cache, kwargs)
    /\ resp' = [op |-> "delete", req |-> req, status |-> 0, detail |-> "ok",
                fault |-> "none", body |-> NoBody]
    /\ served' = [r \in {x \in DOMAIN served :
                           GenerateKey(SearchKwargs(x)) # GenerateKey(kwargs)} |->
                    served[r]]
    /\ written' = Remove(written, GenerateKey(kwargs))
    /\ due' = Nothing
    /\ UNCHANGED <<now, advances, supplierDataCache, fileState, nextReq,
                   stamped>>

Clear ==
    /\ UNCHANGED others
    /\ cache' = CacheAfterClear(cache)
    /\ resp' = [op |-> "clear", req |-> NoBody, status |-> 0, detail |-> "ok",
                fault |-> "none", body |-> NoBody]
    /\ served' = EmptyCache
    /\ written' = EmptyCache
    /\ due' = Nothing
    /\ UNCHANGED <<now, advances, supplierDataCache, fileState, nextReq,
                   stamped>>

----------------------------------------------------------------------------
(* The requests of the model *)

Point(lat, lon) == [latitude |-> lat, longitude |-> lon]

\* two origins that agree to 4 decimal places
Origins == {Point(1733520, 7845370), Point(1733521, 7845371)}

Materials == {"cement", "sand", "steel"}
Quantities == {0, Tons(50), Tons(600)}

(* the large order, which no single supplier covers, is placed for cement *)
SearchRequests ==
    {req \in [origin : Origins, material : {"cement", "sand"},
              quantity_tons : Quantities] :
        req.quantity_tons = Tons(600) => req.material = "cement"}

OpsSearchRequests ==
    {[origin |-> Point(1744000, 7834890), material |-> m, quantity_tons |-> q] :
        m \in Materials, q \in {0, Tons(50)}}

DeleteRequests ==
    {[origin |-> Point(1733520, 7845370), material |-> m,
      quantity_tons |-> Tons(50)] :
        m \in {"cement", "sand"}}

SupplierIds == {"SUP-CEM-001", "SUP-SND-001"}

QuoteRequests ==
    {[supplier_id |-> s, material |-> m, quantity_tons |-> q, origin |-> o] :
        s \in SupplierIds, m \in Materials, q \in {0, Tons(50)},
        o \in {Point(1733520, 7845370)}}

Destinations ==
    {[latitude |-> Some(1733450), longitude |-> Some(7845120)],
     [latitude |-> Some(1724030), longitude |-> Some(7842940)],
     [latitude |-> Nothing, longitude |-> Some(7845120)]}

RouteRequests ==
    {[origin |-> o, destination |-> d, quantity_tons |-> q] :
        o \in {Point(1733520, 7845370)},
        d \in Destinations,
        q \in {Nothing, Some(0), Some(Tons(-5)), Some(Tons(50))}}

FileStates ==
    {AllFilesOk,
     [AllFilesOk EXCEPT !["sand_suppliers_mock.json"] = "missing"],
     [AllFilesOk EXCEPT !["sand_suppliers_mock.json"] = "malformed"]}

Init ==
    /\ now = 0
    /\ advances = 0
    /\ cache = EmptyCache
    /\ supplierDataCache = {}
    /\ fileState \in FileStates
    /\ nextReq = 1
    /\ resp = [op |-> "none", req |-> NoBody, status |-> 0, detail |-> "ok",
               fault |-> "none", body |-> NoBody]
    /\ written = EmptyCache
    /\ stamped = EmptyCache
    /\ served = EmptyCache
    /\ due = Nothing
    /\ loader = LoaderInit
    /\ inflight = NoInflight
    /\ lock = "free"

(* Searches, explicit invalidation and the clock *)
(* the program started on a catalog whose files are all readable *)
InitFilesOk == Init /\ fileState = AllFilesOk

Next ==
    \/ \E req \in SearchRequests : SearchInvalid(req)
    \/ \E req \in SearchRequests : Search(req)
    \/ \E req \in DeleteRequests : Delete(req)
    \/ Clear
    \/ \E d \in Advances : Tick(d)

Spec == InitFilesOk /\ [][Next]_vars

(* The three operations of the API side by side *)
NextOps ==
    \/ \E req \in OpsSearchRequests : SearchInvalid(req)
    \/ \E req \in OpsSearchRequests : Search(req)
    \/ \E req \in QuoteRequests : QuoteInvalid(req)
    \/ \E req \in QuoteRequests, j \in JitterFactors, e \in EtaJitters :
          Quote(req, j, e)
    \/ \E req \in RouteRequests : RouteEta(req)
    \/ \E d \in Advances : Tick(d)

SpecOps == Init /\ [][NextOps]_vars

(* The same program with a cache whose get or set may raise *)
NextFault ==
    \/ \E req \in SearchRequests, f \in {"none", "get", "set"} :
          SearchWith(req, f)
    \/ \E req \in DeleteRequests : Delete(req)
    \/ \E d \in Advances : Tick(d)

SpecFault == Init /\ [][NextFault]_vars

----------------------------------------------------------------------------
(* The ranking helpers of src/core/utils.py applied to arbitrary supplier  *)
(* lists: dicts as the catalog files may hold them, with or without a      *)
(* stock or a price, and stocks that are not whole tons.                   *)

MaxListLen == 3

RankPool ==
    {[supplier_id |-> "A", distance_km |-> 500, price_inr_per_ton |-> Inr(6800),
      lead_time_days |-> 2, stock_tons |-> Tons(20)],
     [supplier_id |-> "B", distance_km |-> 500, price_inr_per_ton |-> Inr(6500),
      lead_time_days |-> 3, stock_tons |-> 10126],
     [supplier_id |-> "C", distance_km |-> 300, price_inr_per_ton |-> Inr(6800),
      lead_time_days |-> 1, stock_tons |-> 0],
     [supplier_id |-> "D", distance_km |-> 500, price_inr_per_ton |-> Inr(6800),
      lead_time_days |-> 1],
     [supplier_id |-> "E", distance_km |-> 800, lead_time_days |-> 1,
      stock_tons |-> Tons(30)]}

SupplierLists == UNION {[1..n -> RankPool] : n \in 0..MaxListLen}

RankQuantities == {Tons(20), 30126, Tons(100)}

(* the arguments of a call, drawn before the helpers are applied *)
HelperArgs(suppliers, required_quantity) ==
    [op |-> "arguments",
     req |-> [suppliers |-> suppliers, required_quantity |-> required_quantity],
     status |-> 0, detail |-> "ok", fault |-> "none", body |-> NoBody]

InitRank ==
    /\ now = 0
    /\ advances = 0
    /\ cache = EmptyCache
    /\ supplierDataCache = {}
    /\ fileState = AllFilesOk
    /\ nextReq = 1
    /\ \E l \in SupplierLists, q \in RankQuantities : resp = HelperArgs(l, q)
    /\ written = EmptyCache
    /\ stamped = EmptyCache
    /\ served = EmptyCache
    /\ due = Nothing
    /\ loader = LoaderInit
    /\ inflight = NoInflight
    /\ lock = "free"

(* one call of a helper on the arguments drawn: what it returned *)
HelperCall(op, result) ==
    /\ resp' = [resp EXCEPT !.op = op, !.body = result]
    /\ UNCHANGED <<now, advances, cache, supplierDataCache, fileState,
                   nextReq, written, stamped, served, due, loader, inflight, lock>>

RankCall ==
    HelperCall("rank_suppliers", RankSuppliers(resp.req.suppliers))

FilterCall ==
    HelperCall("filter_eligible_suppliers",
               FilterEligibleSuppliers(resp.req.suppliers,
                                       resp.req.required_quantity))

(* create_split_plan on the ranked list, as search_suppliers calls it *)
SplitCall ==
    HelperCall("create_split_plan",
               CreateSplitPlan(RankSuppliers(resp.req.suppliers),
                               resp.req.required_quantity))

(* the dicts of the list carry every field the Supplier schema requires *)
Complete(suppliers) ==
    \A i \in 1..Len(suppliers) :
        {"stock_tons", "price_inr_per_ton"} \subseteq DOMAIN suppliers[i]

(* lines 94-113 of search_suppliers on the ranked list *)
RecommendCall ==
    /\ Complete(resp.req.suppliers)
    /\ HelperCall("recommend",
                  [ranked |-> RankSuppliers(resp.req.suppliers)] @@
                  RecommendationPolicy(RankSuppliers(resp.req.suppliers),
                                       resp.req.required_quantity))

NextRank == RankCall \/ FilterCall \/ SplitCall \/ RecommendCall

SpecRank == InitRank /\ [][NextRank]_vars

----------------------------------------------------------------------------
(* create_split_plan applied to ranked lists longer than the three         *)
(* suppliers it looks at                                                   *)

MaxSplitLen == 4

SplitPool ==
    {[supplier_id |-> "P", distance_km |-> 100, price_inr_per_ton |-> Inr(6800),
      lead_time_days |-> 2, stock_tons |-> 0],
     [supplier_id |-> "Q", distance_km |-> 200, price_inr_per_ton |-> Inr(6500),
      lead_time_days |-> 3, stock_tons |-> Tons(20)],
     [supplier_id |-> "R", distance_km |-> 300, price_inr_per_ton |-> Inr(6800),
      lead_time_days |-> 1],
     [supplier_id |-> "S", distance_km |-> 400, price_inr_per_ton |-> Inr(6000),
      lead_time_days |-> 1, stock_tons |-> Tons(30)]}

SplitLists == UNION {[1..n -> SplitPool] : n \in 0..MaxSplitLen}

InitSplit ==
    /\ now = 0
    /\ advances = 0
    /\ cache = EmptyCache
    /\ supplierDataCache = {}
    /\ fileState = AllFilesOk
    /\ nextReq = 1
    /\ \E l \in SplitLists, q \in {Tons(10), Tons(100)} : resp = HelperArgs(l, q)
    /\ written = EmptyCache
    /\ stamped = EmptyCache
    /\ served = EmptyCache
    /\ due = Nothing
    /\ loader = LoaderInit
    /\ inflight = NoInflight
    /\ lock = "free"

SpecSplit == InitSplit /\ [][SplitCall]_vars

----------------------------------------------------------------------------
(* rank_suppliers applied to dicts that lack one of the criteria           *)

MaxMissingLen == 3

MissingPool ==
    {[supplier_id |-> "F", distance_km |-> 300, lead_time_days |-> 1],
     [supplier_id |-> "G", distance_km |-> 500, price_inr_per_ton |-> Inr(6800),
      lead_time_days |-> 2],
     [supplier_id |-> "H", price_inr_per_ton |-> Inr(6500), lead_time_days |-> 1],
     [supplier_id |-> "I", distance_km |-> 500, price_inr_per_ton |-> Inr(6800)],
     [supplier_id |-> "J", distance_km |-> 500, price_inr_per_ton |-> Inr(6900),
      lead_time_days |-> 1]}

InitMissing ==
    /\ now = 0
    /\ advances = 0
    /\ cache = EmptyCache
    /\ supplierDataCache = {}
    /\ fileState = AllFilesOk
    /\ nextReq = 1
    /\ \E l \in UNION {[1..n -> MissingPool] : n \in 0..MaxMissingLen} :
          resp = HelperArgs(l, 0)
    /\ written = EmptyCache
    /\ stamped = EmptyCache
    /\ served = EmptyCache
    /\ due = Nothing
    /\ loader = LoaderInit
    /\ inflight = NoInflight
    /\ lock = "free"

SpecMissing == InitMissing /\ [][RankCall]_vars

----------------------------------------------------------------------------
(* apply_price_jitter of src/core/utils.py applied to arbitrary base       *)
(* prices in whole units of 0.01 INR and every factor of the configured    *)
(* range in steps of one thousandth.                                       *)

MaxSmallPrice == 60

BasePrices == 1..MaxSmallPrice \cup {110030, Inr(6800)}

SampledFactors == PRICE_JITTER_MIN..PRICE_JITTER_MAX

JitterArgs(base_price, jitter) ==
    [op |-> "arguments",
     req |-> [base_price |-> base_price, jitter |-> jitter],
     status |-> 0, detail |-> "ok", fault |-> "none", body |-> NoBody]

InitJitter ==
    /\ now = 0
    /\ advances = 0
    /\ cache = EmptyCache
    /\ supplierDataCache = {}
    /\ fileState = AllFilesOk
    /\ nextReq = 1
    /\ \E b \in BasePrices, j \in SampledFactors : resp = JitterArgs(b, j)
    /\ written = EmptyCache
    /\ stamped = EmptyCache
    /\ served = EmptyCache
    /\ due = Nothing
    /\ loader = LoaderInit
    /\ inflight = NoInflight
    /\ lock = "free"

JitterCall ==
    /\ resp.op = "arguments"
    /\ HelperCall("apply_price_jitter",
                  ApplyPriceJitter(resp.req.base_price, resp.req.jitter))

NextJitter == JitterCall

SpecJitter == InitJitter /\ [][NextJitter]_vars

----------------------------------------------------------------------------
(* The classification of a route by its distance, lines 303-309 of         *)
(* src/routes/suppliers.py and 64-69 of src/routes/routing.py, applied to  *)
(* every distance haversine_distance can return (multiples of 0.01 km) up  *)
(* to MaxDistance.                                                         *)

MaxDistance == 3100

DistanceArgs(distance) ==
    [op |-> "arguments", req |-> [distance_km |-> distance],
     status |-> 0, detail |-> "ok", fault |-> "none", body |-> NoBody]

InitQuality ==
    /\ now = 0
    /\ advances = 0
    /\ cache = EmptyCache
    /\ supplierDataCache = {}
    /\ fileState = AllFilesOk
    /\ nextReq = 1
    /\ \E d \in 0..MaxDistance : resp = DistanceArgs(d)
    /\ written = EmptyCache
    /\ stamped = EmptyCache
    /\ served = EmptyCache
    /\ due = Nothing
    /\ loader = LoaderInit
    /\ inflight = NoInflight
    /\ lock = "free"

QualityCall ==
    /\ resp.op = "arguments"
    /\ HelperCall("route_quality", RouteQuality(resp.req.distance_km))

NextQuality == QualityCall

SpecQuality == InitQuality /\ [][NextQuality]_vars

----------------------------------------------------------------------------
(* The two implementations of the route-eta operation side by side *)

NextRouting ==
    \/ \E req \in RouteRequests : RouteEta(req)
    \/ \E req \in RouteRequests : RoutingRouteInvalid(req)
    \/ \E req \in RouteRequests, limited \in BOOLEAN :
          RoutingRouteEta(req, limited)
    \/ \E d \in Advances : Tick(d)

SpecRouting == Init /\ [][NextRouting]_vars

----------------------------------------------------------------------------
(* The catalog loader with a reload under way and readers in other threads *)

NextLoader ==
    \/ CatalogChange
    \/ ReloadClear
    \/ ReloadLoadNext
    \/ \E m \in LoaderMaterials : GetSuppliersByMaterial(m)
    \/ GetAllMaterials

SpecLoader == Init /\ [][NextLoader]_vars

----------------------------------------------------------------------------
(* Searches as coroutines: any number of them may be asleep in             *)
(* simulate_latency at the same time, and they resume in any order         *)

InflightRequests ==
    {[origin |-> Point(1733520, 7845370), material |-> m,
      quantity_tons |-> Tons(50)] : m \in {"cement", "sand"}}

NextInflight ==
    \/ \E c \in Coroutines, req \in InflightRequests : SearchStart(c, req)
    \/ \E c \in Coroutines : SearchResume(c)
    \/ \E d \in Advances : Tick(d)

SpecInflight == Init /\ [][NextInflight]_vars

----------------------------------------------------------------------------
(* Repeated searches of one entry. generate_request_id draws 48 random     *)
(* bits per request; the model numbers the requests, request i getting     *)
(* the id i, and the numbering may start anywhere                          *)

HitRequests ==
    {[origin |-> o, material |-> m, quantity_tons |-> Tons(50)] :
        o \in Origins, m \in {"cement", "sand"}}

InitHits ==
    /\ now = 0
    /\ advances = 0
    /\ cache = EmptyCache
    /\ supplierDataCache = {}
    /\ fileState = AllFilesOk
    /\ nextReq = 0
    /\ resp = [op |-> "none", req |-> NoBody, status |-> 0, detail |-> "ok",
               fault |-> "none", body |-> NoBody]
    /\ written = EmptyCache
    /\ stamped = EmptyCache
    /\ served = EmptyCache
    /\ due = Nothing
    /\ loader = LoaderInit
    /\ inflight = NoInflight
    /\ lock = "free"

NextHits ==
    \/ \E req \in HitRequests : Search(req)
    \/ \E d \in Advances : Tick(d)

SpecHits == InitHits /\ [][NextHits]_vars

----------------------------------------------------------------------------
(* Searches from origins on the prime meridian, where the longitudes       *)
(* round to zero from either side                                          *)

KeyRequests ==
    {[origin |-> o, material |-> m, quantity_tons |-> q] :
        o \in {Point(1733520, -1), Point(1733520, 1), Point(1733520, 12)},
        m \in {"cement", "sand"}, q \in {Tons(50), Tons(600)}}

SpecKeys == InitFilesOk /\ [][\E req \in KeyRequests : Search(req)]_vars

----------------------------------------------------------------------------
(* Searches that fail next to searches that succeed: a material outside    *)
(* the mapping, a file that is missing or malformed                        *)

ErrorRequests ==
    {[origin |-> o, material |-> m, quantity_tons |-> Tons(50)] :
        o \in Origins, m \in Materials}

NextErrors ==
    \/ \E req \in ErrorRequests : Search(req)
    \/ \E d \in Advances : Tick(d)

SpecErrors == Init /\ [][NextErrors]_vars

----------------------------------------------------------------------------
(* Searches over every file of the catalog, from an origin next to the     *)
(* suppliers that are out of stock and from one next to the supplier that  *)
(* has stock                                                               *)

StockRequests ==
    {[origin |-> o, material |-> m, quantity_tons |-> q] :
        o \in {Point(1733520, 7845370), Point(1744000, 7834890)},
        m \in {"cement", "sand", "aggregate", "bricks"},
        q \in {Tons(25), Tons(50)}}

SpecStock == InitFilesOk /\ [][\E req \in StockRequests : Search(req)]_vars

----------------------------------------------------------------------------
(* Searches, quotes and route estimates as coroutines of one event loop.   *)
(* asyncio.sleep wakes every sleeper after its delay and the loop runs     *)
(* every coroutine that is ready, hence weak fairness of each resumption   *)

LiveQuoteRequests ==
    {[supplier_id |-> s, material |-> "cement", quantity_tons |-> Tons(50),
      origin |-> Point(1733520, 7845370)] : s \in SupplierIds}

LiveRouteRequests ==
    {[origin |-> Point(1733520, 7845370),
      destination |-> [latitude |-> Some(1733450), longitude |-> Some(7845120)],
      quantity_tons |-> Nothing]}

NextLive ==
    \/ \E c \in Coroutines, req \in InflightRequests : SearchStart(c, req)
    \/ \E c \in Coroutines : SearchResume(c)
    \/ \E c \in Coroutines, req \in LiveQuoteRequests : QuoteStart(c, req)
    \/ \E c \in Coroutines : QuoteResume(c)
    \/ \E c \in Coroutines, req \in LiveRouteRequests : RouteStart(c, req)
    \/ \E c \in Coroutines : RouteResume(c)

(* the step of the event loop that runs coroutine c once it is ready *)
Resume(c) == SearchResume(c) \/ QuoteResume(c) \/ RouteResume(c)

SpecLive ==
    /\ Init
    /\ [][NextLive]_vars
    /\ \A c \in Coroutines : WF_vars(Resume(c))

----------------------------------------------------------------------------
(* Properties of the cache *)

KeyOf(r) == GenerateKey(r.kwargs)

(* C1: a get returns a hit only while the clock is not past the expiry     *)
(* that the most recent set of that key stamped; an entry past its expiry  *)
(* is never a hit.                                                         *)
C1_HitOnlyBeforeExpiry ==
    (resp.op = "get" /\ resp.result.cache_hit) =>
        /\ KeyOf(resp) \in DOMAIN stamped
        /\ resp.at <= stamped[KeyOf(resp)].expiry

(* a hit at the very instant of expiry, after the clock has moved *)
C1_Witness ==
    /\ resp.op = "get"
    /\ resp.result.cache_hit
    /\ resp.at > 0
    /\ resp.at = stamped[KeyOf(resp)].expiry

(* a get past the expiry, answered with a miss *)
C1_WitnessMiss ==
    /\ resp.op = "get"
    /\ ~resp.result.cache_hit
    /\ KeyOf(resp) \in DOMAIN stamped
    /\ resp.at > stamped[KeyOf(resp)].expiry

SetThenGet ==
    /\ resp.op = "get"
    /\ resp.after.op = "set"
    /\ resp.after.kwargs = resp.kwargs
    /\ resp.after.at = resp.at

(* C4: set(k, v, ttl) followed at once, with no clock advance, by get(k)   *)
(* is a hit that carries v and age_seconds 0.                              *)
C4_SetGetRoundTrip ==
    SetThenGet =>
        /\ resp.result.cache_hit
        /\ resp.result.data = resp.after.data
        /\ resp.result.age_seconds = 0

(* the round trip over an entry that replaced an older one, later in time *)
C4_Witness ==
    /\ SetThenGet
    /\ resp.at > 0
    /\ resp.seq > 2
    /\ resp.result.cache_hit

(* C5: after set(params, payload, ttl), whatever ttl the caller passes,    *)
(* the key holds the new payload with creation time = set time and         *)
(* expiry = set time + the given ttl; the other keys are unchanged.        *)
C5_SetStampsGivenTtl ==
    [][(resp'.op = "set" /\ resp'.seq # resp.seq) =>
        LET k == KeyOf(resp')
            ttl == IF resp'.ttl_hours.given
                   THEN resp'.ttl_hours.value * HourTicks
                   ELSE DEFAULT_TTL_HOURS * HourTicks
        IN  /\ DOMAIN cache' = DOMAIN cache \cup {k}
            /\ cache'[k] = [data |-> resp'.data, cached_at |-> now,
                            expiry |-> now + ttl]
            /\ \A j \in DOMAIN cache \ {k} : cache'[j] = cache[j]]_vars

----------------------------------------------------------------------------
(* Properties of the handlers *)

(* C2: once a search has been computed on a miss, every later search with   *)
(* the same material, origin and quantity made before the 24 hours are     *)
(* over, with no delete or clear in between, answers with                  *)
(* provenance.cache = true and the suppliers and recommendation of the     *)
(* first answer.                                                           *)
C2_RepeatServedFromCache ==
    (resp.op = "search" /\ due.given) =>
        /\ resp.status = 200
        /\ resp.body.provenance.cache = TRUE
        /\ resp.body.suppliers = due.value.suppliers
        /\ resp.body.recommended = due.value.recommended

(* a repeat at the last instant of the time to live, recommending the head *)
(* of a split plan                                                         *)
C2_Witness ==
    /\ resp.op = "search"
    /\ due.given
    /\ now = due.value.at + CACHE_TTL_HOURS * HourTicks
    /\ resp.body.provenance.cache
    /\ resp.body.provenance.request_id # due.value.request_id
    /\ resp.body.recommended # NoSupplier
    /\ resp.body.recommended.stock_tons < resp.req.quantity_tons

(* C3: a stored entry changes only through set/get/delete/clear; a search   *)
(* served from the cache leaves the stored payload, provenance included,   *)
(* as set wrote it.                                                        *)
C3_StoredPayloadAsWritten ==
    \A k \in DOMAIN cache :
        k \in DOMAIN written /\ cache[k].data = written[k]

(* C6: quote and route-eta leave the set of cache entries as it was,       *)
(* whatever their input and outcome.                                       *)
C6_QuoteRouteLeaveCache ==
    [][resp'.op \in {"quote", "route_eta"} => cache' = cache]_vars

(* a quote answered while the cache holds an entry *)
C6_Witness ==
    /\ resp.op = "quote"
    /\ resp.status = 200
    /\ DOMAIN cache # {}

(* a route request that failed while the cache holds an entry *)
C6_WitnessRouteError ==
    /\ resp.op = "route_eta"
    /\ resp.status # 200
    /\ DOMAIN cache # {}

Loadable(material) ==
    /\ Lower(material) \in DOMAIN MATERIAL_FILE_MAP
    /\ fileState[MATERIAL_FILE_MAP[Lower(material)]] = "ok"

(* C7: a search whose cache lookup or cache store raises does not fail: it *)
(* computes afresh and returns the bundle.                                 *)
C7_CacheFaultFallsBack ==
    (resp.op = "search" /\ resp.fault # "none" /\ Loadable(resp.req.material)) =>
        /\ resp.status = 200
        /\ resp.body # NoBody

(* C8: in search and in quote a material id outside the catalog mapping    *)
(* ends in a client error, never in an internal error.                     *)
C8_UnknownMaterialIsClientError ==
    (/\ resp.op \in {"search", "quote"}
     /\ Lower(resp.req.material) \notin DOMAIN MATERIAL_FILE_MAP) =>
        resp.status \in 400..499

ListedIds(material) ==
    LET list == FileContents[MATERIAL_FILE_MAP[Lower(material)]] IN
    {list[i].supplier_id : i \in 1..Len(list)}

UnlistedQuote ==
    /\ resp.op = "quote"
    /\ resp.req.quantity_tons > 0
    /\ Loadable(resp.req.material)
    /\ resp.req.supplier_id \notin ListedIds(resp.req.material)

(* C9: a quote for a supplier id that the catalog of the requested         *)
(* material does not list ends with "Supplier not found" and no quote,     *)
(* also when another material lists that id.                               *)
C9_UnlistedSupplierNotFound ==
    UnlistedQuote =>
        /\ resp.status = 404
        /\ resp.detail = "Supplier not found"
        /\ resp.body = NoBody

(* the id is listed under cement, the quote asks for sand *)
C9_Witness ==
    /\ UnlistedQuote
    /\ resp.req.material = "sand"
    /\ resp.req.supplier_id \in ListedIds("cement")
    /\ resp.status = 404

NonPositiveQuantity ==
    /\ resp.op \in {"search", "quote", "route_eta"}
    /\ IF resp.op = "route_eta"
       THEN resp.req.quantity_tons.given /\ resp.req.quantity_tons.value <= 0
       ELSE resp.req.quantity_tons <= 0

(* C10: search, quote and route-eta reject a supplied quantity_tons that   *)
(* is zero or negative as an invalid argument and return no result.        *)
C10_NonPositiveQuantityRejected ==
    NonPositiveQuantity =>
        /\ resp.status \in {400, 422}
        /\ resp.body = NoBody

----------------------------------------------------------------------------
(* Properties of the ranking helpers *)

Occurrences(seq, x) == Cardinality({i \in DOMAIN seq : seq[i] = x})

IsPermutation(a, b) ==
    /\ Len(a) = Len(b)
    /\ \A x \in RankPool : Occurrences(a, x) = Occurrences(b, x)

(* the value of a criterion, a missing one counting as infinity *)
Criterion(s, c) == IF c \in DOMAIN s THEN s[c] ELSE Infinity

(* s does not come after t in (distance, price, lead time) order *)
NotAfter(s, t) ==
    LET d1 == Criterion(s, "distance_km")
        d2 == Criterion(t, "distance_km")
        p1 == Criterion(s, "price_inr_per_ton")
        p2 == Criterion(t, "price_inr_per_ton")
        l1 == Criterion(s, "lead_time_days")
        l2 == Criterion(t, "lead_time_days")
    IN  \/ d1 < d2
        \/ d1 = d2 /\ p1 < p2
        \/ d1 = d2 /\ p1 = p2 /\ l1 <= l2

(* C11: the result of rank_suppliers is a permutation of its argument and  *)
(* is non-decreasing in (distance_km, price_inr_per_ton, lead_time_days),  *)
(* compared lexicographically.                                             *)
C11_RankSortsLexicographically ==
    resp.op = "rank_suppliers" =>
        /\ IsPermutation(resp.req.suppliers, resp.body)
        /\ \A i \in 1..Len(resp.body) : \A j \in i..Len(resp.body) :
              NotAfter(resp.body[i], resp.body[j])

(* a list of three whose order changes, two of them at the same distance   *)
(* and told apart by the price                                             *)
C11_Witness ==
    /\ resp.op = "rank_suppliers"
    /\ Len(resp.body) = 3
    /\ resp.body # resp.req.suppliers
    /\ \E i \in 1..2 :
          /\ resp.body[i].distance_km = resp.body[i + 1].distance_km
          /\ Criterion(resp.body[i], "price_inr_per_ton")
                < Criterion(resp.body[i + 1], "price_inr_per_ton")

(* the stock of a supplier, a missing field counting as 0 *)
StockOf(s) == IF "stock_tons" \in DOMAIN s THEN s.stock_tons ELSE 0

RECURSIVE IsSubsequence(_, _)
(* a is b with some elements left out *)
IsSubsequence(a, b) ==
    IF a = <<>> THEN TRUE
    ELSE IF b = <<>> THEN FALSE
    ELSE IF Head(a) = Head(b) THEN IsSubsequence(Tail(a), Tail(b))
    ELSE IsSubsequence(a, Tail(b))

(* C12: filter_eligible_suppliers returns exactly the suppliers of its     *)
(* argument whose stock_tons is at least the required quantity, in the     *)
(* same relative order, and never one with less stock; a supplier without  *)
(* a stock field counts as stock 0.                                        *)
C12_FilterKeepsExactlyEligible ==
    resp.op = "filter_eligible_suppliers" =>
        LET q == resp.req.required_quantity IN
        /\ \A i \in 1..Len(resp.body) : StockOf(resp.body[i]) >= q
        /\ \A x \in RankPool :
              Occurrences(resp.body, x) =
                 IF StockOf(x) >= q THEN Occurrences(resp.req.suppliers, x)
                 ELSE 0
        /\ IsSubsequence(resp.body, resp.req.suppliers)

(* two suppliers kept, one of them with exactly the required stock, and a  *)
(* supplier without a stock field left out                                 *)
C12_Witness ==
    /\ resp.op = "filter_eligible_suppliers"
    /\ Len(resp.body) = 2
    /\ resp.body[1] # resp.body[2]
    /\ \E i \in 1..2 : StockOf(resp.body[i]) = resp.req.required_quantity
    /\ \E i \in 1..Len(resp.req.suppliers) :
          "stock_tons" \notin DOMAIN resp.req.suppliers[i]

RECURSIVE SumAllocated(_)
SumAllocated(plan) ==
    IF plan = <<>> THEN 0
    ELSE Head(plan).allocated_tons + SumAllocated(Tail(plan))

(* C13: a split plan has at most 3 allocations, every allocated_tons is    *)
(* greater than 0 and at most the stock of its supplier, and the           *)
(* allocated_tons together never exceed the required quantity.             *)
C13_SplitPlanWithinStockAndDemand ==
    resp.op = "create_split_plan" =>
        /\ Len(resp.body) <= 3
        /\ \A i \in 1..Len(resp.body) :
              /\ resp.body[i].allocated_tons > 0
              /\ resp.body[i].allocated_tons <= StockOf(resp.body[i])
        /\ SumAllocated(resp.body) <= resp.req.required_quantity

----------------------------------------------------------------------------
(* Properties of the recommendation *)

(* the positions of the ranked list with enough stock for the quantity *)
EnoughStock(ranked, q) == {i \in 1..Len(ranked) : StockOf(ranked[i]) >= q}

Lowest(S) == CHOOSE i \in S : \A j \in S : i <= j

(* C14: on a search miss, if some supplier has stock >= quantity the       *)
(* recommended supplier is the best-ranked such supplier; otherwise, if    *)
(* the split plan is non-empty, it is the supplier of the plan's first     *)
(* allocation; otherwise it is null.  A split plan is built only when no   *)
(* supplier is eligible and the ranked list is non-empty.                  *)
C14_RecommendationFollowsPolicy ==
    resp.op = "recommend" =>
        LET ranked == resp.body.ranked
            enough == EnoughStock(ranked, resp.req.required_quantity)
            plan == resp.body.split_plan
        IN  /\ IF enough # {}
               THEN resp.body.recommended = Supplier(ranked[Lowest(enough)])
               ELSE IF plan # <<>>
               THEN resp.body.recommended.supplier_id = plan[1].supplier_id
               ELSE resp.body.recommended = NoSupplier
            /\ plan # <<>> => enough = {} /\ ranked # <<>>

(* nobody has enough stock, the best-ranked supplier has none at all, and  *)
(* the recommendation is the first allocation of the plan                  *)
C14_Witness ==
    /\ resp.op = "recommend"
    /\ EnoughStock(resp.body.ranked, resp.req.required_quantity) = {}
    /\ resp.body.split_plan # <<>>
    /\ resp.body.recommended # NoSupplier
    /\ resp.body.recommended.supplier_id # resp.body.ranked[1].supplier_id

(* the best-ranked supplier falls short and a later one is recommended *)
C14_WitnessEligible ==
    /\ resp.op = "recommend"
    /\ EnoughStock(resp.body.ranked, resp.req.required_quantity) # {}
    /\ Lowest(EnoughStock(resp.body.ranked, resp.req.required_quantity)) > 1
    /\ resp.body.recommended # NoSupplier

(* suppliers without any stock: no plan and no recommendation *)
C14_WitnessNull ==
    /\ resp.op = "recommend"
    /\ resp.body.ranked # <<>>
    /\ resp.body.recommended = NoSupplier

(* a search answered with a recommendation although no supplier of the    *)
(* answer has the stock for the whole quantity: it comes from a split plan *)
RecommendedFromSplitPlan ==
    /\ resp.op = "search"
    /\ resp.status = 200
    /\ resp.body.recommended # NoSupplier
    /\ \A i \in 1..Len(resp.body.suppliers) :
          resp.body.suppliers[i].stock_tons < resp.req.quantity_tons

(* C15: when the recommendation comes from a split plan, the recommended   *)
(* record returned by search carries the allocation's allocated_tons and   *)
(* estimated cost next to the supplier fields.                             *)
C15_SplitRecommendationCarriesAllocation ==
    RecommendedFromSplitPlan =>
        {"allocated_tons", "estimated_cost_inr"}
            \subseteq DOMAIN resp.body.recommended

----------------------------------------------------------------------------
(* Properties of the price jitter.  The price is in 0.01 INR and the       *)
(* factor in thousandths, so price * 1000 and base * factor are both in    *)
(* units of 0.00001 INR.                                                   *)

(* C16 as stated: for every base price in whole cents and every factor in  *)
(* [0.99, 1.02], the jittered price rounded to cents lies in the closed    *)
(* interval [base x 0.99, base x 1.02].                                    *)
C16_JitterWithinFactorInterval ==
    resp.op = "apply_price_jitter" =>
        /\ resp.req.base_price * PRICE_JITTER_MIN <= resp.body * 1000
        /\ resp.body * 1000 <= resp.req.base_price * PRICE_JITTER_MAX

(* C16 amended: the jittered price rounded to cents lies within half a     *)
(* cent of base x factor, hence in                                         *)
(* [base x 0.99 - 0.005, base x 1.02 + 0.005].                             *)
C16_JitterWithinHalfCent ==
    resp.op = "apply_price_jitter" =>
        /\ resp.body * 1000 - resp.req.base_price * resp.req.jitter <= 500
        /\ resp.req.base_price * resp.req.jitter - resp.body * 1000 <= 500
        /\ resp.req.base_price * PRICE_JITTER_MIN - 500 <= resp.body * 1000
        /\ resp.body * 1000 <= resp.req.base_price * PRICE_JITTER_MAX + 500

(* the rounding carries the price past base x 1.02 *)
C16_Witness ==
    /\ resp.op = "apply_price_jitter"
    /\ resp.body * 1000 > resp.req.base_price * PRICE_JITTER_MAX

----------------------------------------------------------------------------
(* Properties of the route-eta operation *)

(* C17: route quality classifies every distance, with strict lower bounds: *)
(* below 10 km "optimal", from 10 km to below 30 km "good", from 30 km on  *)
(* "fair"; exactly 10.0 km is "good" and exactly 30.0 km is "fair".        *)
C17_RouteQualityThresholds ==
    resp.op = "route_quality" =>
        LET d == resp.req.distance_km IN
        /\ d < 10 * 100 => resp.body = "optimal"
        /\ 10 * 100 <= d /\ d < 30 * 100 => resp.body = "good"
        /\ d >= 30 * 100 => resp.body = "fair"
        /\ resp.body \in {"optimal", "good", "fair"}

(* exactly 10.0 km classified "good" *)
C17_Witness ==
    /\ resp.op = "route_quality"
    /\ resp.req.distance_km = 10 * 100
    /\ resp.body = "good"

(* exactly 30.0 km classified "fair" *)
C17_WitnessFair ==
    /\ resp.op = "route_quality"
    /\ resp.req.distance_km = 30 * 100
    /\ resp.body = "fair"

(* C18: every implementation of route-eta computes the CO2 from the        *)
(* quantity of the request when one is given and from 10 tons when it is   *)
(* omitted.                                                                *)
C18_Co2FromQuantityOrTenTons ==
    resp.op \in {"route_eta", "routing_route_eta"} /\ resp.status = 200 =>
        resp.body.co2_kg =
            CalculateCo2Emissions(IF resp.req.quantity_tons.given
                                  THEN resp.req.quantity_tons.value
                                  ELSE Tons(10),
                                  resp.body.distance_km)

(* C18 for routing.py alone, on requests that leave the quantity out *)
C18_RoutingDefaultsToTenTons ==
    /\ resp.op = "routing_route_eta"
    /\ resp.status = 200
    /\ ~resp.req.quantity_tons.given
    => resp.body.co2_kg = CalculateCo2Emissions(Tons(10), resp.body.distance_km)

----------------------------------------------------------------------------
(* Properties of the catalog loader *)

(* C19: a reader running concurrently with reload() observes either the    *)
(* complete old catalog or the complete new one, never an empty or         *)
(* partially loaded one: a material's list is the list of some revision    *)
(* that was on disk, and the list of materials is the whole list.          *)
C19_ReaderSeesWholeCatalog ==
    /\ loader.seen.op = "get_suppliers_by_material" =>
          \E v \in 1..loader.disk :
              loader.seen.result = LoadedList(loader.seen.material_id, v)
    /\ loader.seen.op = "get_all_materials" =>
          loader.seen.result = LOADER_FILES

----------------------------------------------------------------------------
(* Properties of concurrent searches *)

(* two coroutines answered the same search of a catalog that loads *)
BothAnswered(c1, c2) ==
    /\ c1 # c2
    /\ inflight[c1].pc = "answered"
    /\ inflight[c2].pc = "answered"
    /\ inflight[c1].req = inflight[c2].req
    /\ Loadable(inflight[c1].req.material)

WellFormed(entry) == DOMAIN entry = {"data", "expiry", "cached_at"}

(* C20: for every interleaving of two concurrent searches with identical   *)
(* parameters both complete successfully, and afterwards the cache holds   *)
(* exactly one well-formed entry for the key, whose payload is the bundle  *)
(* written by the later set.                                               *)
C20_ConcurrentSearchesLastWriteWins ==
    \A c1, c2 \in Coroutines :
        BothAnswered(c1, c2) =>
            LET k == GenerateKey(SearchKwargs(inflight[c1].req)) IN
            /\ inflight[c1].resp.status = 200
            /\ inflight[c2].resp.status = 200
            /\ k \in DOMAIN cache
            /\ WellFormed(cache[k])
            /\ cache[k].data = written[k]

(* C20 without the provenance of the stored bundle: both searches          *)
(* succeed and the entry holds the suppliers and the recommendation of the *)
(* later set                                                               *)
C20_ExceptProvenance ==
    \A c1, c2 \in Coroutines :
        BothAnswered(c1, c2) =>
            LET k == GenerateKey(SearchKwargs(inflight[c1].req)) IN
            /\ inflight[c1].resp.status = 200
            /\ inflight[c2].resp.status = 200
            /\ k \in DOMAIN cache
            /\ WellFormed(cache[k])
            /\ [cache[k].data EXCEPT !.provenance = NoBody]
                 = [written[k] EXCEPT !.provenance = NoBody]

----------------------------------------------------------------------------
(* Properties of the event loop *)

Started(c) == inflight[c].pc = "sleeping"

Returned(c) ==
    /\ inflight[c].pc = "answered"
    /\ inflight[c].resp.status \in {200, 400, 404, 500}

(* C21: under fair scheduling every started search, quote or route-eta     *)
(* request eventually returns a response or an error, and the cache lock   *)
(* is free again after every cache method, so that requests contending     *)
(* for it all get through.                                                 *)
C21_EveryRequestReturns ==
    /\ [](lock = "free")
    /\ \A c \in Coroutines : Started(c) ~> Returned(c)

(* every coroutine has returned, two of them from searches of one key *)
C21_Witness ==
    /\ \A c \in Coroutines : Returned(c)
    /\ \E c1, c2 \in Coroutines :
           /\ c1 # c2
           /\ inflight[c1].op = "search"
           /\ inflight[c2].op = "search"
           /\ inflight[c1].req = inflight[c2].req

----------------------------------------------------------------------------
(* Properties of the overload outcome *)

RETRY_STATUS_CODE == 429

(* the call of the operation on this request can answer with the overload  *)
(* status                                                                  *)
CanBeOverloaded(req) ==
    CASE "supplier_id" \in DOMAIN req ->
           ENABLED (\E jitter \in JitterFactors, etaJitter \in EtaJitters :
                       /\ Quote(req, jitter, etaJitter)
                       /\ resp'.status = RETRY_STATUS_CODE)
      [] "destination" \in DOMAIN req ->
           ENABLED (RouteEta(req) /\ resp'.status = RETRY_STATUS_CODE)
      [] OTHER ->
           ENABLED (Search(req) /\ resp'.status = RETRY_STATUS_CODE)

(* C22: each call of a search, a quote or a route estimate can end in the  *)
(* overload outcome, whatever the calls before it returned: in every       *)
(* state in which the operation can be called, a call answering with the   *)
(* retry status is possible.                                               *)
C22_EveryCallCanBeOverloaded ==
    RequestsLeft =>
        /\ \A req \in OpsSearchRequests :
              req.quantity_tons > 0 => CanBeOverloaded(req)
        /\ \A req \in QuoteRequests :
              req.quantity_tons > 0 => CanBeOverloaded(req)
        /\ \A req \in RouteRequests : CanBeOverloaded(req)

----------------------------------------------------------------------------
(* Properties of the request ids *)

(* the request ids held anywhere in the state: by the last response, by    *)
(* the stored bundles and by the bundles as their set wrote them           *)
IdsInUse ==
    (IF resp.op = "search" /\ resp.status = 200
     THEN {resp.body.provenance.request_id} ELSE {})
    \cup {cache[k].data.provenance.request_id : k \in DOMAIN cache}
    \cup {written[k].provenance.request_id : k \in DOMAIN written}

(* the id of the request whose set wrote the entry that r was served from *)
PopulatedBy(r) == written[GenerateKey(SearchKwargs(r.req))].provenance.request_id

ServedFromCache(r) ==
    /\ r.op = "search"
    /\ r.status = 200
    /\ r.body.provenance.cache

(* C23: a search response served from the cache carries the request id     *)
(* generated for the current request; that id differs from the id of the   *)
(* request that populated the entry and from the id of every earlier       *)
(* response, earlier responses served from the same entry included.        *)
C23_HitCarriesOwnRequestId ==
    [][(nextReq' # nextReq /\ ServedFromCache(resp')) =>
          /\ resp'.body.provenance.request_id = nextReq
          /\ resp'.body.provenance.request_id # PopulatedBy(resp')
          /\ \A id \in IdsInUse : id < resp'.body.provenance.request_id]_vars

(* the second response served from one entry *)
C23_Witness ==
    /\ ServedFromCache(resp)
    /\ resp.body.provenance.request_id = PopulatedBy(resp) + 2
    /\ DOMAIN cache = {GenerateKey(SearchKwargs(resp.req))}

----------------------------------------------------------------------------
(* Properties of the eviction on read *)

(* the step is a get of an entry that is past its expiry instant *)
GetOfExpired ==
    /\ resp'.op = "get"
    /\ resp'.seq = resp.seq + 1
    /\ GenerateKey(resp'.kwargs) \in DOMAIN cache
    /\ now > cache[GenerateKey(resp'.kwargs)].expiry

(* C24: a get of an entry that is past its time to live reports a miss     *)
(* and removes the entry: right afterwards the key is absent, get_stats    *)
(* counts one entry less, and every other entry is as it was.              *)
C24_GetEvictsExpiredEntry ==
    [][GetOfExpired =>
          LET k == GenerateKey(resp'.kwargs) IN
          /\ ~resp'.result.cache_hit
          /\ k \notin DOMAIN cache'
          /\ GetStats(cache', now').total_entries =
                 GetStats(cache, now).total_entries - 1
          /\ DOMAIN cache' = DOMAIN cache \ {k}
          /\ \A x \in DOMAIN cache' : cache'[x] = cache[x]]_vars

(* a get has just evicted an expired entry and another entry is still in   *)
(* the store                                                               *)
C24_Witness ==
    /\ resp.op = "get"
    /\ resp.after.op = "set"
    /\ GenerateKey(resp.kwargs) \in DOMAIN stamped
    /\ resp.at > stamped[GenerateKey(resp.kwargs)].expiry
    /\ GenerateKey(resp.kwargs) \notin DOMAIN cache
    /\ GetStats(cache, now).total_entries = 1

----------------------------------------------------------------------------
(* Properties of the split plan on longer lists *)

HasStock(s) == Get(s, "stock_tons", 0) > 0

RECURSIVE BestWithStock(_, _, _)
(* the ids of the best-ranked suppliers with stock, up to slots of them,   *)
(* taken until the demand is met                                           *)
BestWithStock(ranked, remaining, slots) ==
    IF ranked = <<>> \/ slots = 0 \/ remaining <= 0 THEN <<>>
    ELSE IF ~HasStock(Head(ranked))
    THEN BestWithStock(Tail(ranked), remaining, slots)
    ELSE <<Head(ranked).supplier_id>> \o
         BestWithStock(Tail(ranked),
                       remaining - Min(Head(ranked).stock_tons, remaining),
                       slots - 1)

PlanIds(plan) == [i \in 1..Len(plan) |-> plan[i].supplier_id]

(* C25: the split plan allocates to the best-ranked suppliers that have    *)
(* stock, up to 3 of them, in rank order, until the demand is met: with k  *)
(* such suppliers needed and present in the ranked list, the plan holds    *)
(* the k best-ranked of them.                                              *)
C25_SplitPlanTakesBestWithStock ==
    resp.op = "create_split_plan" =>
        PlanIds(resp.body) =
            BestWithStock(RankSuppliers(resp.req.suppliers),
                          resp.req.required_quantity, 3)

----------------------------------------------------------------------------
(* Properties of the ranking of dicts that lack a criterion *)

CRITERIA == <<"distance_km", "price_inr_per_ton", "lead_time_days">>

HasAllCriteria(s) == \A n \in 1..3 : CRITERIA[n] \in DOMAIN s

(* the position of the first criterion that s lacks *)
FirstMissing(s) ==
    CHOOSE n \in 1..3 :
        /\ CRITERIA[n] \notin DOMAIN s
        /\ \A m \in 1..(n - 1) : CRITERIA[m] \in DOMAIN s

(* s is strictly better than t on a criterion that comes before the first *)
(* one s lacks, and equal to t on the criteria before that one            *)
BetterBeforeMissing(s, t) ==
    \E n \in 1..(FirstMissing(s) - 1) :
        /\ s[CRITERIA[n]] < t[CRITERIA[n]]
        /\ \A m \in 1..(n - 1) : s[CRITERIA[m]] = t[CRITERIA[m]]

(* C26: rank_suppliers places every supplier that lacks a criterion value  *)
(* after every supplier that has all three.                                *)
C26_MissingCriterionRankedLast ==
    resp.op = "rank_suppliers" =>
        \A i, j \in 1..Len(resp.body) :
            (HasAllCriteria(resp.body[i]) /\ ~HasAllCriteria(resp.body[j]))
                => i < j

(* C26, as the code has it: the missing value counts as +infinity in the   *)
(* lexicographic comparison, so a supplier that lacks a criterion comes    *)
(* before a supplier with all three exactly when it is strictly better on  *)
(* a criterion before the missing one, and after it otherwise.             *)
C26_MissingComparedAsInfinity ==
    resp.op = "rank_suppliers" =>
        \A i, j \in 1..Len(resp.body) :
            (~HasAllCriteria(resp.body[i]) /\ HasAllCriteria(resp.body[j]))
                => (i < j <=> BetterBeforeMissing(resp.body[i], resp.body[j]))

(* a nearer supplier without a price ahead of one with all three values,   *)
(* and a supplier without a distance behind both                           *)
C26_Witness ==
    /\ resp.op = "rank_suppliers"
    /\ Len(resp.body) = 3
    /\ "price_inr_per_ton" \notin DOMAIN resp.body[1]
    /\ HasAllCriteria(resp.body[2])
    /\ "distance_km" \notin DOMAIN resp.body[3]

----------------------------------------------------------------------------
(* Properties of the cache key of a search *)

(* the two searches agree in material, quantity and in the origin rounded  *)
(* to 4 decimal places                                                     *)
SameSearch(r1, r2) ==
    /\ r1.material = r2.material
    /\ r1.quantity_tons = r2.quantity_tons
    /\ Round4(r1.origin.latitude) = Round4(r2.origin.latitude)
    /\ Round4(r1.origin.longitude) = Round4(r2.origin.longitude)

(* C27: two searches address the same cache entry exactly when they agree  *)
(* in material, quantity and origin rounded to 4 decimal places: while     *)
(* nothing expires or is deleted, a search is answered from the cache if   *)
(* and only if an earlier search with such parameters was computed.        *)
C27_SameEntryIffSameRoundedSearch ==
    [][(resp'.op = "search" /\ resp'.status = 200 /\ nextReq' # nextReq) =>
          (resp'.body.provenance.cache <=>
              \E r \in DOMAIN served : SameSearch(r, resp'.req))]_vars

----------------------------------------------------------------------------
(* Properties of the searches that fail *)

FailedSearch(r) == r.op = "search" /\ r.status \in {400, 404, 500}

(* the bundle stored under k is the one that the set of a successful       *)
(* search with the parameters of k wrote                                   *)
BundleMatchesKey(k, bundle) ==
    /\ k.endpoint = "suppliers_search"
    /\ bundle.material = k.material
    /\ bundle.quantity_tons = k.qty
    /\ Round4(bundle.origin.latitude) = k.lat.value
    /\ Round4(bundle.origin.longitude) = k.lon.value
    /\ k \in DOMAIN written
    /\ bundle.suppliers = written[k].suppliers
    /\ bundle.recommended = written[k].recommended

(* C28: a search that ends in an error leaves the cache as it was; hence   *)
(* every cache entry holds a bundle assembled by a successful search       *)
(* whose material, quantity and rounded origin are those of its key.       *)
C28_FailedSearchLeavesCache ==
    /\ [][(nextReq' # nextReq /\ FailedSearch(resp')) => cache' = cache]_vars
    /\ [](\A k \in DOMAIN cache : BundleMatchesKey(k, cache[k].data))

(* a search has just failed while the cache holds the bundle of an         *)
(* earlier search whose origin was rounded for the key                     *)
C28_Witness ==
    /\ FailedSearch(resp)
    /\ \E k \in DOMAIN cache :
          cache[k].data.origin.latitude # k.lat.value

----------------------------------------------------------------------------
(* Properties of the age of a hit *)

(* the time to live, in seconds, that the caller of set asked for *)
TtlSecondsGiven(ttl_hours) ==
    IF ttl_hours.given THEN ttl_hours.value * SECONDS_PER_HOUR
    ELSE DEFAULT_TTL_HOURS * SECONDS_PER_HOUR

(* the get follows the set of its key, with nothing but time in between *)
GetAfterSet ==
    /\ resp.op = "get"
    /\ resp.after.op = "set"
    /\ resp.after.kwargs = resp.kwargs

(* C29: every hit reports an age_seconds that is at least 0 and at most    *)
(* the time to live, in seconds, with which the entry was stored.          *)
C29_HitAgeWithinTtl ==
    (GetAfterSet /\ resp.result.cache_hit) =>
        /\ resp.result.age_seconds >= 0
        /\ resp.result.age_seconds <= TtlSecondsGiven(resp.after.ttl_hours)

----------------------------------------------------------------------------
(* Properties of the recommendation of a search *)

(* the catalog lists a supplier of the material that has stock *)
CatalogHasStock(material) ==
    LET list == FileContents[MATERIAL_FILE_MAP[Lower(material)]] IN
    \E i \in 1..Len(list) : list[i].stock_tons > 0

ComputedSearch(r) ==
    /\ r.op = "search"
    /\ r.status = 200
    /\ ~r.body.provenance.cache

(* C30: the bundle of a search computed on a miss recommends a supplier    *)
(* whenever a catalog supplier of the material has stock; recommended is   *)
(* null only when no supplier of the material has any stock.               *)
C30_RecommendedUnlessNoStock ==
    ComputedSearch(resp) =>
        (resp.body.recommended = NoSupplier
            <=> ~CatalogHasStock(resp.req.material))

====
